---- MODULE Spec2Model ----
(***************************************************************************)
(* Heartbeat collector (src/heartbeat_server.py) on top of the datagram    *)
(* socket server (src/socket_server.py), with the wire codec shared with   *)
(* the client (src/client.py).                                             *)
(*                                                                         *)
(* Two threads are modelled: the loop thread running serve() and one       *)
(* controller thread calling shutdown().  Datagrams are byte sequences;    *)
(* struct.pack / struct.unpack, UTF-8 and rstrip are computed on bytes.    *)
(* Timestamps are whole seconds (floats that hold small integers).         *)
(* Signals (KeyboardInterrupt) are not modelled.                           *)
(***************************************************************************)
EXTENDS Integers, Sequences, FiniteSets, Bags, TLC

(* ---------------------------------------------------------------- *)
(* Program constants                                                *)
(* ---------------------------------------------------------------- *)

HBT_DEF == 10

HBT_SIZE == 26

BASE_PATH == "/tmp/"

BASE_DIR == "unx_ss"

BASE_IDENT == "server"

\* client.py: default heartbeat rate of the client, in seconds
FREQ_DEF == 5

(* ---------------------------------------------------------------- *)
(* Bounds of the model                                              *)
(* ---------------------------------------------------------------- *)

\* the clock stops at MaxTime seconds
MaxTime == 14

\* number of shutdown() calls the controller thread makes at most
MaxShutdownCalls == 2

\* number of times the client sleeps between heartbeats at most
MaxSleeps == 3

(* ---------------------------------------------------------------- *)
(* Python values                                                    *)
(* ---------------------------------------------------------------- *)

\* Python's None where a string (a sequence of code points) is expected
None == <<-1>>

\* an exceptional outcome and a normal one
Raise(e) == [exc |-> e, value |-> <<>>]

Return(v) == [exc |-> "none", value |-> v]

Min(a, b) == IF a < b THEN a ELSE b

\* s[a:b] of Python (0-based, end exclusive, clipped to the length)
PySlice(s, a, b) == SubSeq(s, a + 1, Min(b, Len(s)))

Zeros(n) == [i \in 1..n |-> 0]

(* ---------------------------------------------------------------- *)
(* struct: ">b", ">i", ">d", "12s"                                  *)
(* ---------------------------------------------------------------- *)

Pow2(n) == 2 ^ n

\* floor of the binary logarithm of 1 <= n < 4096
Log2(n) == CHOOSE e \in 0..11 : Pow2(e) <= n /\ n < Pow2(e + 1)

\* struct.pack(">b", v): one byte, two's complement
PackByte(v) == <<IF v < 0 THEN v + 256 ELSE v>>

\* the four big-endian bytes of 0 <= u < 2^31
BytesBE4(u) ==
    << u \div 16777216, (u \div 65536) % 256, (u \div 256) % 256, u % 256 >>

\* struct.pack(">i", v): 32-bit signed, big-endian, two's complement
PackInt(v) ==
    IF v >= 0 THEN BytesBE4(v)
    ELSE LET q == BytesBE4(-(v + 1)) IN [i \in 1..4 |-> 255 - q[i]]

\* struct.unpack(">i", b)[0] of exactly four bytes
UnpackInt(b) ==
    IF b[1] < 128
    THEN b[1] * 16777216 + b[2] * 65536 + b[3] * 256 + b[4]
    ELSE -((255 - b[1]) * 16777216 + (255 - b[2]) * 65536
           + (255 - b[3]) * 256 + (255 - b[4])) - 1

\* struct.pack(">d", t) for a float holding the integer 0 <= t < 4096:
\* sign 0, biased exponent 1023 + e, the fraction's top 12 bits, zeros below
PackDouble(t) ==
    IF t = 0 THEN Zeros(8)
    ELSE LET e   == Log2(t)
             ex  == 1023 + e
             m12 == (t - Pow2(e)) * Pow2(12 - e)
         IN << ex \div 16, ((ex % 16) * 16) + (m12 \div 256), m12 % 256,
               0, 0, 0, 0, 0 >>

\* a float that is no integer of the modelled range
NotWhole == 0 - 1

\* struct.unpack(">d", b)[0] of exactly eight bytes
UnpackDouble(b) ==
    LET ex  == ((b[1] % 128) * 16) + (b[2] \div 16)
        m12 == ((b[2] % 16) * 256) + b[3]
        e   == ex - 1023
        low == \A i \in 4..8 : b[i] = 0
    IN  IF b = Zeros(8) THEN 0
        ELSE IF b[1] < 128 /\ low /\ e >= 0 /\ e <= 11
                /\ (m12 * Pow2(e)) % 4096 = 0
             THEN Pow2(e) + ((m12 * Pow2(e)) \div 4096)
             ELSE NotWhole

\* struct.pack("12s", b): cut to 12 bytes, or padded with zero bytes
Pack12s(b) ==
    IF Len(b) >= 12 THEN SubSeq(b, 1, 12) ELSE b \o Zeros(12 - Len(b))

(* ---------------------------------------------------------------- *)
(* UTF-8                                                            *)
(* ---------------------------------------------------------------- *)

\* str.encode("UTF-8") of one code point
Utf8Char(c) ==
    IF c < 128 THEN <<c>>
    ELSE IF c < 2048 THEN << 192 + (c \div 64), 128 + (c % 64) >>
    ELSE IF c < 65536
         THEN << 224 + (c \div 4096), 128 + ((c \div 64) % 64), 128 + (c % 64) >>
         ELSE << 240 + (c \div 262144), 128 + ((c \div 4096) % 64),
                 128 + ((c \div 64) % 64), 128 + (c % 64) >>

\* str.encode("UTF-8") of a string given as its code points
Utf8Encode(s) ==
    LET enc[k \in 0..Len(s)] ==
            IF k = 0 THEN <<>> ELSE enc[k - 1] \o Utf8Char(s[k])
    IN  enc[Len(s)]

IsCont(b, i) == i <= Len(b) /\ b[i] >= 128 /\ b[i] <= 191

\* the number of bytes of the well-formed character that starts at b[i],
\* 0 when none does
Utf8Width(b, i) ==
    LET c == b[i] IN
    IF c < 128 THEN 1
    ELSE IF c >= 194 /\ c <= 223 /\ IsCont(b, i + 1) THEN 2
    ELSE IF c >= 224 /\ c <= 239 /\ IsCont(b, i + 1) /\ IsCont(b, i + 2)
            /\ (c = 224 => b[i + 1] >= 160) /\ (c = 237 => b[i + 1] <= 159)
         THEN 3
    ELSE IF c >= 240 /\ c <= 244 /\ IsCont(b, i + 1) /\ IsCont(b, i + 2)
            /\ IsCont(b, i + 3)
            /\ (c = 240 => b[i + 1] >= 144) /\ (c = 244 => b[i + 1] <= 143)
         THEN 4
    ELSE 0

\* the code point of the well-formed character of width w at b[i]
Utf8Point(b, i, w) ==
    CASE w = 1 -> b[i]
      [] w = 2 -> (b[i] - 192) * 64 + (b[i + 1] - 128)
      [] w = 3 -> (b[i] - 224) * 4096 + (b[i + 1] - 128) * 64 + (b[i + 2] - 128)
      [] OTHER -> (b[i] - 240) * 262144 + (b[i + 1] - 128) * 4096
                  + (b[i + 2] - 128) * 64 + (b[i + 3] - 128)

\* bytes.decode("UTF-8"): Return(code points), or
\* Raise("UnicodeDecodeError") when some position starts no well-formed
\* character; good[i] and points[i] are about the bytes from position i on
Utf8Decode(b) ==
    LET good[i \in 1..Len(b) + 1] ==
            IF i > Len(b) THEN TRUE
            ELSE IF Utf8Width(b, i) = 0 THEN FALSE
            ELSE good[i + Utf8Width(b, i)]
        points[i \in 1..Len(b) + 1] ==
            IF i > Len(b) THEN <<>>
            ELSE <<Utf8Point(b, i, Utf8Width(b, i))>> \o points[i + Utf8Width(b, i)]
    IN  IF good[1] THEN Return(points[1]) ELSE Raise("UnicodeDecodeError")

\* str.rstrip("\x00"): the string up to its last character other than NUL
RStripNul(s) ==
    LET last[n \in 0..Len(s)] ==
            IF n = 0 THEN 0 ELSE IF s[n] # 0 THEN n ELSE last[n - 1]
    IN  SubSeq(s, 1, last[Len(s)])

(* ---------------------------------------------------------------- *)
(* Wire codec                                                       *)
(* ---------------------------------------------------------------- *)

\* HeartbeatClient._sign_packet with time.time() = unix_t, the client's
\* pid and self.id = id: a zeroed bytearray of 26 (Register) or 14 bytes
\* whose slices [1:2], [2:10], [10:14] and, for a Register, [14:26] are
\* overwritten by slices of the same length
_sign_packet(type_, unix_t, pid, id) ==
    LET head == <<0>> \o PackByte(type_) \o PackDouble(unix_t) \o PackInt(pid)
    IN  IF type_ = 2 THEN head \o Pack12s(Utf8Encode(id)) ELSE head

\* HeartbeatServer._unpack: Return(<<_type, pid, timestamp, ident>>), or the
\* exception the indexing, struct.unpack or decode raises
_unpack(packet) ==
    IF Len(packet) < 2 THEN Raise("IndexError")
    ELSE LET _type      == packet[2]
             time_bytes == PySlice(packet, 2, 10)
             pid_bytes  == PySlice(packet, 10, 14)
             id_bytes   == PySlice(packet, 14, 26)
         IN  IF Len(time_bytes) # 8 \/ Len(pid_bytes) # 4
             THEN Raise("struct.error")
             ELSE IF _type # 2
             THEN Return(<< _type, UnpackInt(pid_bytes),
                            UnpackDouble(time_bytes), None >>)
             ELSE IF Len(id_bytes) # 12 THEN Raise("struct.error")
             ELSE LET dec == Utf8Decode(id_bytes) IN
                  IF dec.exc # "none" THEN Raise(dec.exc)
                  ELSE Return(<< _type, UnpackInt(pid_bytes),
                                 UnpackDouble(time_bytes), RStripNul(dec.value) >>)

(* ---------------------------------------------------------------- *)
(* The client's constructor and sends                               *)
(* ---------------------------------------------------------------- *)

\* str(n) of an int 0 <= n < 10^8, as code points: str[m] is the decimal
\* numeral of n \div 10^(7 - m), empty for 0
PyStr(n) ==
    LET str[m \in 0..7] ==
            LET q == n \div (10 ^ (7 - m)) IN
            IF q = 0 THEN <<>>
            ELSE (IF m = 0 THEN <<>> ELSE str[m - 1]) \o <<48 + (q % 10)>>
    IN  IF n = 0 THEN <<48>> ELSE str[7]

\* a Python value is truthy: None and the empty string are not
Truthy(v) == v # None /\ v # <<>>

\* HeartbeatClient._validate_id: True, or ValueError for more than 12
\* characters
_validate_id(id) ==
    IF Len(id) <= 12 THEN Return(TRUE) ELSE Raise("ValueError")

\* HeartbeatClient.__init__ called with id and rate in the process pid:
\* [exc, id, rate], the exception that leaves the constructor and the
\* fields self.id and self.rate
HeartbeatClient(id, rate, pid) ==
    LET v == IF Truthy(id) THEN _validate_id(id) ELSE Return(TRUE)
    IN  [exc  |-> v.exc,
         id   |-> IF Truthy(id) THEN id ELSE PyStr(pid),
         rate |-> rate]

\* HeartbeatClient._handle_packet_size
_handle_packet_size(packet) == Len(packet) <= 26

\* HeartbeatClient._send(packet_type) at time.time() = unix_t on a socket
\* connected to an open destination: [exc, sent], the exception of
\* socket.send on a closed descriptor and the packets sent so far, each
\* with its type and the time of the send
_send(packet_type, unix_t, pid, id, open, sent) ==
    LET signed_packet == _sign_packet(packet_type, unix_t, pid, id) IN
    IF ~_handle_packet_size(signed_packet) THEN [exc |-> "none", sent |-> sent]
    ELSE IF ~open THEN [exc |-> "OSError", sent |-> sent]
    ELSE [exc  |-> "none",
          sent |-> Append(sent, [type |-> packet_type, time |-> unix_t,
                                 packet |-> signed_packet])]

\* _safe_exit of the client with the socket closed before the Deregister
client_safe_exit_close_first(unix_t, pid, id, open, sent) ==
    [exc  |-> IF open THEN "none" ELSE "OSError",
     open |-> FALSE,
     sent |-> _send(3, unix_t, pid, id, FALSE, sent).sent]

\* HeartbeatClient._safe_exit: try: self.deregister(); finally: shutdown
\* and close the socket, return.  [exc, open, sent]: socket.shutdown on a
\* closed descriptor raises inside the finally block; the return at its
\* end drops the exception of deregister()
client_safe_exit(unix_t, pid, id, open, sent) ==
    LET dereg == _send(3, unix_t, pid, id, open, sent) IN
    [exc  |-> IF open THEN "none" ELSE "OSError",
     open |-> FALSE,
     sent |-> dereg.sent]

(* ---------------------------------------------------------------- *)
(* Liveness table: self.clients, a dict pid -> entry                *)
(* ---------------------------------------------------------------- *)

EmptyTable == [p \in {} |-> 0]

Entry(process_name, timestamp) ==
    [process_name |-> process_name, last_heartbeat |-> timestamp]

\* d[k] = v of a dict
DictSet(d, k, v) == [p \in DOMAIN d \cup {k} |-> IF p = k THEN v ELSE d[p]]

\* del d[k] of a dict that has k
DictDel(d, k) == [p \in DOMAIN d \ {k} |-> d[p]]

\* _heartbeat that ignores a pid it has not seen
_heartbeat_known_only(clients, pid, timestamp, process_name) ==
    IF pid \in DOMAIN clients
    THEN [clients EXCEPT ![pid].last_heartbeat = timestamp]
    ELSE clients

\* _heartbeat that stores a whole new entry, as _register does
_heartbeat_overwrite(clients, pid, timestamp, process_name) ==
    DictSet(clients, pid, Entry(process_name, timestamp))

\* HeartbeatServer._heartbeat: the table afterwards
_heartbeat(clients, pid, timestamp, process_name) ==
    IF pid \in DOMAIN clients
    THEN [clients EXCEPT ![pid].last_heartbeat = timestamp]
    ELSE DictSet(clients, pid, Entry(process_name, timestamp))

\* _register that keeps a stored timestamp newer than the packet's
_register_keeps_newer(clients, pid, timestamp, process_name) ==
    IF pid \in DOMAIN clients /\ clients[pid].last_heartbeat > timestamp
    THEN DictSet(clients, pid, Entry(process_name, clients[pid].last_heartbeat))
    ELSE DictSet(clients, pid, Entry(process_name, timestamp))

\* HeartbeatServer._register: the table afterwards
_register(clients, pid, timestamp, process_name) ==
    DictSet(clients, pid, Entry(process_name, timestamp))

\* _deregister that looks the entry up and leaves it in the table
_deregister_keeps_entry(clients, pid, timestamp, process_name) ==
    IF pid \in DOMAIN clients
    THEN Return(clients)
    ELSE Raise("KeyError")

\* HeartbeatServer._deregister: Return(the table afterwards), or KeyError
\* from the lookup that precedes the del
_deregister(clients, pid, timestamp, process_name) ==
    IF pid \in DOMAIN clients
    THEN Return(DictDel(clients, pid))
    ELSE Raise("KeyError")

\* handle_request without its except KeyError clause
handle_request_no_except(clients, data) ==
    LET struc == _unpack(data) IN
    IF struc.exc # "none"
    THEN [exc |-> struc.exc, clients |-> clients]
    ELSE LET _type == struc.value[1]
             pid   == struc.value[2]
             ts    == struc.value[3]
             name  == struc.value[4]
         IN  CASE _type = 1 ->
                    [exc |-> "none", clients |-> _heartbeat(clients, pid, ts, name)]
               [] _type = 2 ->
                    [exc |-> "none", clients |-> _register(clients, pid, ts, name)]
               [] _type = 3 ->
                    LET r == _deregister(clients, pid, ts, name) IN
                    IF r.exc = "none" THEN [exc |-> "none", clients |-> r.value]
                    ELSE [exc |-> r.exc, clients |-> clients]
               [] OTHER -> [exc |-> "none", clients |-> clients]

\* HeartbeatServer.handle_request on the bytes of a request:
\* [exc, clients], exc the exception that leaves handle_request ("none"
\* when it returns) and clients the table afterwards
handle_request(clients, data) ==
    LET struc == _unpack(data) IN
    IF struc.exc # "none"
    THEN [exc |-> struc.exc, clients |-> clients]
    ELSE LET _type == struc.value[1]
             pid   == struc.value[2]
             ts    == struc.value[3]
             name  == struc.value[4]
         IN  CASE _type = 1 ->
                    [exc |-> "none", clients |-> _heartbeat(clients, pid, ts, name)]
               [] _type = 2 ->
                    [exc |-> "none", clients |-> _register(clients, pid, ts, name)]
               [] _type = 3 ->
                    LET r == _deregister(clients, pid, ts, name) IN
                    IF r.exc = "none" THEN [exc |-> "none", clients |-> r.value]
                    ELSE IF r.exc = "KeyError"
                         THEN [exc |-> "none", clients |-> clients]
                         ELSE [exc |-> r.exc, clients |-> clients]
               [] OTHER -> [exc |-> "none", clients |-> clients]

(* ---------------------------------------------------------------- *)
(* Staleness scan                                                   *)
(* ---------------------------------------------------------------- *)

\* request_hook's threshold for time.time() = currtime
Threshold(currtime) == currtime - HBT_DEF

\* the scan with last_beat <= threshold for last_beat < threshold
ScanItems_le(clients_cpy, threshold) ==
    SetToBag({client \in DOMAIN clients_cpy :
                clients_cpy[client].last_heartbeat <= threshold})

\* the loop of request_hook over the items of the copy: the bag of the
\* notify(pid) calls it makes, one for each item below the threshold
ScanItems(clients_cpy, threshold) ==
    SetToBag({client \in DOMAIN clients_cpy :
                clients_cpy[client].last_heartbeat < threshold})

\* HeartbeatServer.request_hook at time.time() = currtime: the notify calls
request_hook(clients, currtime) ==
    LET clients_cpy == clients
    IN  ScanItems(clients_cpy, Threshold(currtime))

\* TwilioMixin.get_env: os.environ[...] raises KeyError when the twilio_*
\* variables are not set (environ = FALSE)
get_env(environ) == IF environ THEN Return(None) ELSE Raise("KeyError")

\* self.notify(pid) of the server class: HeartbeatServer.notify ("log")
\* looks up self.clients[pid] (KeyError without the key), logs and
\* returns; TwilioMixin.notify ("twilio") first calls get_env, then makes
\* the same lookup and sends, printing a TwilioRestException it catches
notify(notifier, environ, clients, pid) ==
    LET e == IF notifier = "twilio" THEN get_env(environ) ELSE Return(None) IN
    IF e.exc # "none" THEN e
    ELSE IF pid \in DOMAIN clients THEN Return(None) ELSE Raise("KeyError")

(* ---------------------------------------------------------------- *)
(* Bound path and teardown                                          *)
(* ---------------------------------------------------------------- *)

\* path=None of the constructor
NoPath == "None"

\* os.path.join(BASE_PATH, BASE_DIR)
DirPath == BASE_PATH \o BASE_DIR

\* socket.bind(address) of an AF_UNIX socket: creates the socket file;
\* OSError (address already in use) when the path exists
socket_bind(address, fs) ==
    IF address \in fs THEN Raise("OSError") ELSE Return(fs \cup {address})

\* _bind_local without the unlink of an existing path
_bind_local_no_unlink(path, fs, token) ==
    LET gen   == DirPath \o "/" \o BASE_IDENT \o "." \o token
        p     == IF path = NoPath THEN gen ELSE path
        fsDir == IF path = NoPath /\ DirPath \notin fs THEN fs \cup {DirPath} ELSE fs
        b     == socket_bind(p, fsDir)
    IN  [exc  |-> b.exc, path |-> p,
         addr |-> IF b.exc = "none" THEN p ELSE NoPath,
         fs   |-> IF b.exc = "none" THEN b.value ELSE fsDir]

\* UnixSocketServer._bind_local with self.path = path, the existing paths
\* fs and secrets.token_urlsafe returning token: self.path, the address
\* the socket is bound to and the paths existing afterwards.  Without a
\* path one is generated in DirPath, which is created unless it is there;
\* an existing path is unlinked; then the socket is bound
_bind_local(path, fs, token) ==
    LET gen   == DirPath \o "/" \o BASE_IDENT \o "." \o token
        p     == IF path = NoPath THEN gen ELSE path
        fsDir == IF path = NoPath /\ DirPath \notin fs THEN fs \cup {DirPath} ELSE fs
        fsNew == IF p \in fsDir THEN fsDir \ {p} ELSE fsDir
        b     == socket_bind(p, fsNew)
    IN  [exc  |-> b.exc, path |-> p,
         addr |-> IF b.exc = "none" THEN p ELSE NoPath,
         fs   |-> IF b.exc = "none" THEN b.value ELSE fsNew]

\* UnixSocketServer._cleanup: Return(paths existing afterwards), or the
\* error of os.unlink on a path that does not exist
_cleanup(path, fs) ==
    IF path = NoPath THEN Return(fs)
    ELSE IF path \in fs THEN Return(fs \ {path})
    ELSE Raise("FileNotFoundError")

\* UnixSocketServer._safe_exit: [exc, open, fs]; socket.shutdown raises on
\* a closed descriptor, close() releases it, then _cleanup
_safe_exit(open, path, fs) ==
    IF ~open THEN [exc |-> "OSError", open |-> open, fs |-> fs]
    ELSE LET c == _cleanup(path, fs) IN
         IF c.exc = "none" THEN [exc |-> "none", open |-> FALSE, fs |-> c.value]
         ELSE [exc |-> c.exc, open |-> FALSE, fs |-> fs]

(* ---------------------------------------------------------------- *)
(* Inputs                                                           *)
(* ---------------------------------------------------------------- *)

\* process ids of the senders
Pids == {7, 1498144}

\* timestamps the senders put into their packets
Stamps == {1, 3}

\* identifiers of the senders: "a", "hb"
Idents == {<<97>>, <<104, 98>>}

\* an explicit path argument of the constructor
SockPath == "/run/hb.sock"

\* the value secrets.token_urlsafe(nbytes=6) returns
Token == "kq3x_A1z"

\* constructor calls: the arguments timeout, path and bind, and the paths
\* that exist when the constructor runs.  In order: the defaults; another
\* timeout and an explicit path where a stale socket file is left; no bind
\* (as the tests construct it); no bind with a path that nothing created;
\* the defaults when the directory of the generated paths is there
Configs ==
    { [timeout |-> HBT_DEF, path |-> NoPath,   bind |-> TRUE,  fs |-> {}],
      [timeout |-> HBT_DEF, path |-> NoPath,   bind |-> TRUE,  fs |-> {DirPath}],
      [timeout |-> 5,       path |-> SockPath, bind |-> TRUE,  fs |-> {SockPath}],
      [timeout |-> HBT_DEF, path |-> NoPath,   bind |-> FALSE, fs |-> {}],
      [timeout |-> HBT_DEF, path |-> SockPath, bind |-> FALSE, fs |-> {}] }

\* the packets the client's encoder builds
WellFormed ==
    {_sign_packet(1, t, p, None) : t \in Stamps, p \in Pids}
    \cup {_sign_packet(3, t, p, None) : t \in Stamps, p \in Pids}
    \cup UNION {{_sign_packet(2, t, p, id) : t \in Stamps, p \in Pids} : id \in Idents}

\* a Heartbeat, a Register and a Deregister to derive other datagrams from
HB0 == _sign_packet(1, 3, 7, None)

REG0 == _sign_packet(2, 3, 7, <<97>>)

DEREG0 == _sign_packet(3, 3, 7, None)

\* datagrams no encoder builds: short ones, unknown kinds, wrong lengths for
\* the kind, an identifier field that is not UTF-8, an oversized datagram
Malformed ==
    { <<>>, <<0>>, SubSeq(HB0, 1, 5), SubSeq(HB0, 1, 12),
      [HB0 EXCEPT ![2] = 0], [HB0 EXCEPT ![2] = 4],
      SubSeq(REG0, 1, 14), SubSeq(REG0, 1, 20),
      HB0 \o Zeros(6), DEREG0 \o Zeros(6), HB0 \o Zeros(12),
      [REG0 EXCEPT ![15] = 195], REG0 \o <<33>> }

Datagrams == WellFormed \cup Malformed

\* socket.recvfrom(bufsize) on a datagram socket: the datagram's first
\* bufsize bytes, the rest is discarded
recvfrom(datagram, bufsize) == SubSeq(datagram, 1, Min(bufsize, Len(datagram)))

(* ---------------------------------------------------------------- *)
(* State                                                            *)
(* ---------------------------------------------------------------- *)

VARIABLES
    pcS,        \* where the thread running serve() is
    pcC,        \* where the controller thread is
    calls,      \* shutdown() calls made so far
    nreturned,  \* shutdown() calls that have returned
    calledLive, \* at the latest shutdown() call, serve() had not yet ended
    lock,       \* holder of self._condition's lock: "free", "serve", "ctl"
    _shutdown,  \* self._shutdown
    open,       \* the socket's descriptor is open (fileno() # -1)
    bound,      \* the socket is bound
    addr,       \* the address the socket is bound to, NoPath when unbound
    args,       \* the arguments of the constructor call and the paths that
                \* existed when it ran
    path,       \* self.path
    fs,         \* paths that exist in the filesystem
    timeout,    \* self.timeout
    notifier,   \* the class notify comes from: "log" (HeartbeatServer) or
                \* "twilio" (TwilioMixin)
    environ,    \* the twilio_* environment variables are set
    clients,    \* self.clients
    now,        \* time.time()
    events,     \* serve's local: the selector reported the socket readable
    request,    \* serve's local: the bytes read in this iteration
    before,     \* the table when handle_request was entered
    scanned,    \* request_hook has run in this iteration
    currtime,   \* request_hook's local of that scan
    notified,   \* bag of the notify(pid) calls of that scan that returned
    iteration,  \* the calls serve() has made in the current loop iteration
    processed,  \* for each pid, the kind of the latest packet for it that
                \* handle_request dispatched, "none" before the first
    processedBefore, \* processed when handle_request was entered
    alerts,     \* for each pid, the scans in a row (counted up to 2) that
                \* called notify for it with no packet for it in between
    recording,  \* the run keeps processed, processedBefore and alerts
    client_args,     \* HeartbeatClient(...): the arguments id and rate
    client_exc,      \* the exception that left the constructor, or "none"
    client_pid,      \* self.__pid
    client_id,       \* self.id, as code points
    client_rate,     \* self.rate
    client_shutdown, \* self._shutdown of the client
    client_open,     \* the client's socket is open
    client_lock,     \* holder of the client's condition: "free", "run", "ctl"
    pcR,             \* where the thread running the client's run() is
    pcK,             \* where the thread calling the client's shutdown() is
    clock,           \* time.time() in the client's process
    sleeps,          \* time.sleep calls of run() so far
    sent             \* the packets the client has sent, in order

serverVars == << pcS, pcC, calls, nreturned, calledLive, lock, _shutdown, open, bound, addr, args,
           path, fs, timeout, notifier, environ, clients, now, events, request, before,
           scanned, currtime, notified, iteration, processed, processedBefore,
           alerts, recording >>

clientVars == << client_args, client_exc, client_pid, client_id, client_rate,
                client_shutdown, client_open, client_lock, pcR, pcK, clock,
                sleeps, sent >>

vars == << serverVars, clientVars >>

sockVars == << open, bound, addr, args, path, fs, timeout, notifier, environ,
              recording >>

loopVars == << clients, events, request, before, scanned, currtime, notified,
              iteration, processed, processedBefore, alerts >>

ctlVars == << pcC, calls, nreturned, calledLive >>

\* no packet has been dispatched for any pid
NoneProcessed == [p \in Pids |-> "none"]

\* the kinds handle_request dispatches, by the packet's type byte
KindName == << "Heartbeat", "Register", "Deregister" >>

\* processed after handle_request has run on data: the kind of the packet
\* is noted for its pid when _unpack returns and the type is one of the
\* three that handle_request dispatches
Dispatch(done, data) ==
    LET struc == _unpack(data) IN
    IF struc.exc = "none" /\ struc.value[1] \in {1, 2, 3}
                          /\ struc.value[2] \in DOMAIN done
    THEN [done EXCEPT ![struc.value[2]] = KindName[struc.value[1]]]
    ELSE done

\* alerts after handle_request has run on data: the count of the packet's
\* pid starts again
Touch(count, data) ==
    LET struc == _unpack(data) IN
    IF struc.exc = "none" /\ struc.value[1] \in {1, 2, 3}
                          /\ struc.value[2] \in DOMAIN count
    THEN [count EXCEPT ![struc.value[2]] = 0]
    ELSE count

\* alerts after a scan that made the notify calls due
Alerted(count, due) ==
    [p \in DOMAIN count |-> IF BagIn(p, due) THEN Min(count[p] + 1, 2) ELSE 0]

\* UnixSocketServer.__init__ / HeartbeatServer.__init__ in a filesystem
\* where the paths of fs0 exist
Construct(tmo, pathArg, bind, fs0, token) ==
    LET b == _bind_local(pathArg, fs0, token) IN
    /\ timeout = tmo
    /\ open = TRUE
    /\ _shutdown = FALSE
    /\ args = [timeout |-> tmo, path |-> pathArg, bind |-> bind, fs |-> fs0]
    /\ bound = (bind /\ b.exc = "none")
    /\ addr = IF bind THEN b.addr ELSE NoPath
    /\ path = IF bind THEN b.path ELSE pathArg
    /\ fs = IF bind THEN b.fs ELSE fs0
    /\ clients = EmptyTable

\* a server of a class whose notify is nf, constructed by one of the calls
\* cfgs in an environment of envs, before any thread runs
Start(cfgs, nf, envs) ==
    /\ \E c \in cfgs : Construct(c.timeout, c.path, c.bind, c.fs, Token)
    /\ notifier = nf
    /\ environ \in envs
    /\ pcS = "idle"
    /\ pcC = "idle"
    /\ calls = 0
    /\ nreturned = 0
    /\ calledLive = FALSE
    /\ lock = "free"
    /\ now = 0
    /\ events = FALSE
    /\ request = <<>>
    /\ before = EmptyTable
    /\ scanned = FALSE
    /\ currtime = 0
    /\ notified = EmptyBag
    /\ iteration = <<>>
    /\ processed = NoneProcessed
    /\ processedBefore = NoneProcessed
    /\ alerts = [p \in Pids |-> 0]

\* no client is part of the run
NoClient ==
    /\ client_args = [id |-> None, rate |-> FREQ_DEF]
    /\ client_exc = "none"
    /\ client_pid = 0
    /\ client_id = None
    /\ client_rate = FREQ_DEF
    /\ client_shutdown = FALSE
    /\ client_open = FALSE
    /\ client_lock = "free"
    /\ pcR = "none"
    /\ pcK = "none"
    /\ clock = 0
    /\ sleeps = 0
    /\ sent = <<>>

\* a HeartbeatServer
Init == Start(Configs, "log", {FALSE}) /\ NoClient /\ recording = FALSE

\* a HeartbeatServer constructed with the defaults, in a run that records
\* what handle_request dispatched and what the scans notified
RecordingInit ==
    /\ Start({c \in Configs : c.bind /\ c.path = NoPath /\ c.fs = {}}, "log", {FALSE})
    /\ NoClient
    /\ recording = TRUE

\* class Server(TwilioMixin, HeartbeatServer) constructed with the defaults,
\* with or without the twilio_* variables in the environment
MixinInit ==
    /\ Start({c \in Configs : c.bind /\ c.path = NoPath}, "twilio", BOOLEAN)
    /\ NoClient
    /\ recording = FALSE

(* ---------------------------------------------------------------- *)
(* The loop thread: UnixSocketServer.serve                          *)
(* ---------------------------------------------------------------- *)

\* self._selector.register(self, EVENT_READ): ValueError on fileno() = -1
ServeStart ==
    /\ pcS = "idle"
    /\ pcS' = IF open THEN "while" ELSE "dead"
    /\ UNCHANGED << clientVars, ctlVars, lock, _shutdown, sockVars, loopVars, now >>

\* while not self._shutdown
While ==
    /\ pcS = "while"
    /\ pcS' = IF _shutdown THEN "acquire" ELSE "select"
    /\ events' = FALSE
    /\ scanned' = FALSE
    /\ currtime' = 0
    /\ notified' = EmptyBag
    /\ iteration' = <<>>
    /\ UNCHANGED << clientVars, ctlVars, lock, _shutdown, sockVars, clients, request,
                    before, processed, processedBefore, alerts, now >>

\* events = self._selector.select(self.timeout): readable when a datagram
\* has arrived at the bound socket, empty when the timeout ran out
Select ==
    /\ pcS = "select"
    /\ \E ready \in BOOLEAN :
          /\ ready => (bound /\ open)
          /\ events' = ready
    /\ pcS' = "selected"
    /\ iteration' = Append(iteration, "select")
    /\ UNCHANGED << clientVars, ctlVars, lock, _shutdown, sockVars, clients, request,
                    before, scanned, currtime, notified, processed,
                    processedBefore, alerts, now >>

\* the loop without the check of the flag after the wait
AfterSelect_no_break ==
    /\ pcS = "selected"
    /\ pcS' = IF events THEN "get" ELSE "hook"
    /\ UNCHANGED << clientVars, ctlVars, lock, _shutdown, sockVars, loopVars, now >>

\* if self._shutdown: break / if events:
AfterSelect ==
    /\ pcS = "selected"
    /\ pcS' = IF _shutdown THEN "acquire" ELSE IF events THEN "get" ELSE "hook"
    /\ UNCHANGED << clientVars, ctlVars, lock, _shutdown, sockVars, loopVars, now >>

\* request = self.get_request()
GetRequest ==
    /\ pcS = "get"
    /\ \E d \in Datagrams : request' = recvfrom(d, HBT_SIZE)
    /\ pcS' = "handle"
    /\ iteration' = Append(iteration, "get_request")
    /\ UNCHANGED << clientVars, ctlVars, lock, _shutdown, sockVars, clients, events,
                    before, scanned, currtime, notified, processed,
                    processedBefore, alerts, now >>

\* serve() with an except clause that runs _safe_exit for any exception of
\* handle_request, as it does for KeyboardInterrupt
HandleRequest_cleanup ==
    /\ pcS = "handle"
    /\ LET r == handle_request(clients, request)
           x == _safe_exit(open, path, fs)
       IN  /\ clients' = r.clients
           /\ pcS' = IF r.exc = "none" THEN "hook" ELSE "dead"
           /\ open' = IF r.exc = "none" THEN open ELSE x.open
           /\ fs' = IF r.exc = "none" THEN fs ELSE x.fs
    /\ before' = clients
    /\ processed' = IF recording THEN Dispatch(processed, request) ELSE processed
    /\ processedBefore' = processed
    /\ alerts' = Touch(alerts, request)
    /\ iteration' = Append(iteration, "handle_request")
    /\ UNCHANGED << clientVars, ctlVars, lock, _shutdown, bound, addr, args, path,
                    timeout, notifier, environ, recording, events, request, scanned, currtime,
                    notified, now >>

\* self.handle_request(request); an exception ends serve(), which catches
\* KeyboardInterrupt only
HandleRequest ==
    /\ pcS = "handle"
    /\ LET r == handle_request(clients, request) IN
          /\ clients' = r.clients
          /\ pcS' = IF r.exc = "none" THEN "hook" ELSE "dead"
    /\ before' = clients
    /\ processed' = IF recording THEN Dispatch(processed, request) ELSE processed
    /\ processedBefore' = processed
    /\ alerts' = Touch(alerts, request)
    /\ iteration' = Append(iteration, "handle_request")
    /\ UNCHANGED << clientVars, ctlVars, lock, _shutdown, sockVars, events, request,
                    scanned, currtime, notified, now >>

\* a scan that drops the entries it has called notify for
RequestHook_evict ==
    /\ pcS = "hook"
    /\ scanned' = TRUE
    /\ currtime' = now
    /\ LET due    == request_hook(clients, now)
           raises == {pid \in BagToSet(due) :
                        notify(notifier, environ, clients, pid).exc # "none"}
       IN  /\ notified' = IF raises = {} THEN due ELSE EmptyBag
           /\ alerts' = IF recording
                        THEN Alerted(alerts, IF raises = {} THEN due ELSE EmptyBag)
                        ELSE alerts
           /\ pcS' = IF raises = {} THEN "while" ELSE "dead"
           /\ clients' = [p \in DOMAIN clients \ BagToSet(due) |-> clients[p]]
    /\ request' = <<>>
    /\ before' = EmptyTable
    /\ processedBefore' = NoneProcessed
    /\ iteration' = Append(iteration, "request_hook")
    /\ UNCHANGED << clientVars, ctlVars, lock, _shutdown, sockVars, events,
                    processed, now >>

\* self.request_hook(): the notify calls of the scan; the first one that
\* raises ends request_hook and serve(), which catches KeyboardInterrupt only
RequestHook ==
    /\ pcS = "hook"
    /\ scanned' = TRUE
    /\ currtime' = now
    /\ LET due    == request_hook(clients, now)
           raises == {pid \in BagToSet(due) :
                        notify(notifier, environ, clients, pid).exc # "none"}
       IN  /\ notified' = IF raises = {} THEN due ELSE EmptyBag
           /\ alerts' = IF recording
                        THEN Alerted(alerts, IF raises = {} THEN due ELSE EmptyBag)
                        ELSE alerts
           /\ pcS' = IF raises = {} THEN "while" ELSE "dead"
    /\ request' = <<>>
    /\ before' = EmptyTable
    /\ processedBefore' = NoneProcessed
    /\ iteration' = Append(iteration, "request_hook")
    /\ UNCHANGED << clientVars, ctlVars, lock, _shutdown, sockVars, clients, events,
                    processed, now >>

\* with self._condition:
ServeAcquire ==
    /\ pcS = "acquire"
    /\ lock = "free"
    /\ lock' = "serve"
    /\ pcS' = "notify"
    /\ UNCHANGED << clientVars, ctlVars, _shutdown, sockVars, loopVars, now >>

\* self._condition.notify_all(): wakes the thread waiting on the condition
NotifyAll ==
    /\ pcS = "notify"
    /\ pcC' = IF pcC = "waiting" THEN "notified" ELSE pcC
    /\ pcS' = "release"
    /\ UNCHANGED << clientVars, calls, nreturned, calledLive, lock, _shutdown, sockVars,
                   loopVars, now >>

\* the with block ends, serve() returns
ServeRelease ==
    /\ pcS = "release"
    /\ lock' = "free"
    /\ pcS' = "done"
    /\ UNCHANGED << clientVars, ctlVars, _shutdown, sockVars, loopVars, now >>

(* ---------------------------------------------------------------- *)
(* The controller thread: UnixSocketServer.shutdown                 *)
(* ---------------------------------------------------------------- *)

\* shutdown() that sets the flag without holding the condition's lock
ShutdownCall_unlocked ==
    /\ pcC \in {"idle", "returned", "raised"}
    /\ calls < MaxShutdownCalls
    /\ _shutdown' = TRUE
    /\ pcC' = "flagged"
    /\ calls' = calls + 1
    /\ calledLive' = (pcS \notin {"done", "dead"})
    /\ UNCHANGED << clientVars, pcS, nreturned, lock, sockVars, loopVars, now >>

\* shutdown() is called: with self._condition: self._shutdown = True
\* (no other thread can take the lock between the two)
ShutdownCall ==
    /\ pcC \in {"idle", "returned", "raised"}
    /\ calls < MaxShutdownCalls
    /\ lock = "free"
    /\ lock' = "ctl"
    /\ _shutdown' = TRUE
    /\ pcC' = "flagged"
    /\ calls' = calls + 1
    /\ calledLive' = (pcS \notin {"done", "dead"})
    /\ UNCHANGED << clientVars, pcS, nreturned, sockVars, loopVars, now >>

\* a wait() that returns without having been notified
Wait_unnotified ==
    /\ pcC = "flagged"
    /\ lock' = "free"
    /\ pcC' = "notified"
    /\ UNCHANGED << clientVars, pcS, calls, nreturned, calledLive, _shutdown, sockVars,
                   loopVars, now >>

\* self._condition.wait(): releases the lock and blocks until notified
Wait ==
    /\ pcC = "flagged"
    /\ lock' = "free"
    /\ pcC' = "waiting"
    /\ UNCHANGED << clientVars, pcS, calls, nreturned, calledLive, _shutdown, sockVars,
                   loopVars, now >>

\* wait() returns once notified and the lock is taken again
Wake ==
    /\ pcC = "notified"
    /\ lock = "free"
    /\ lock' = "ctl"
    /\ pcC' = "exit"
    /\ UNCHANGED << clientVars, pcS, calls, nreturned, calledLive, _shutdown, sockVars,
                   loopVars, now >>

\* a teardown that also empties the table, from the controller thread
SafeExit_clears ==
    /\ pcC = "exit"
    /\ LET r == _safe_exit(open, path, fs) IN
          /\ open' = r.open
          /\ fs' = r.fs
          /\ pcC' = IF r.exc = "none" THEN "returned" ELSE "raised"
          /\ nreturned' = IF r.exc = "none" THEN nreturned + 1 ELSE nreturned
    /\ lock' = "free"
    /\ clients' = EmptyTable
    /\ UNCHANGED << clientVars, pcS, calls, calledLive, _shutdown, bound, addr, args, path,
                   timeout, notifier, environ, recording, events, request, before, scanned,
                   currtime, notified, iteration, processed, processedBefore,
                   alerts, now >>

\* self._safe_exit(), then the with block ends and shutdown() returns, or
\* the exception of _safe_exit leaves shutdown()
SafeExit ==
    /\ pcC = "exit"
    /\ LET r == _safe_exit(open, path, fs) IN
          /\ open' = r.open
          /\ fs' = r.fs
          /\ pcC' = IF r.exc = "none" THEN "returned" ELSE "raised"
          /\ nreturned' = IF r.exc = "none" THEN nreturned + 1 ELSE nreturned
    /\ lock' = "free"
    /\ UNCHANGED << clientVars, pcS, calls, calledLive, _shutdown, bound, addr, args, path,
                   timeout, notifier, environ, recording, loopVars, now >>

(* ---------------------------------------------------------------- *)
(* Time                                                             *)
(* ---------------------------------------------------------------- *)

\* the first instant at which an entry stamped by Stamps can be old
FirstScanTime == HBT_DEF + 1

\* time passes.  Up to FirstScanTime no scan finds a stale entry, so the
\* clock is sampled at 0 and from FirstScanTime on
Tick ==
    /\ now < MaxTime
    /\ now' = IF now < FirstScanTime THEN FirstScanTime ELSE now + 1
    /\ UNCHANGED << clientVars, pcS, ctlVars, lock, _shutdown, sockVars, loopVars >>

ServeStep ==
    \/ ServeStart
    \/ While
    \/ Select
    \/ AfterSelect
    \/ GetRequest
    \/ HandleRequest
    \/ RequestHook
    \/ ServeAcquire
    \/ NotifyAll
    \/ ServeRelease

\* the steps of shutdown() after the call
ShutdownStep ==
    \/ Wait
    \/ Wake
    \/ SafeExit

Next ==
    \/ ServeStep
    \/ ShutdownCall
    \/ ShutdownStep
    \/ Tick

Spec == Init /\ [][Next]_vars

\* the same threads around a server whose notify is TwilioMixin's
MixinSpec == MixinInit /\ [][Next]_vars

\* the same threads in a run that records the dispatched packets and the
\* notify calls of the scans
RecordingSpec == RecordingInit /\ [][Next]_vars

(* ---------------------------------------------------------------- *)
(* The client: HeartbeatClient.run and HeartbeatClient.shutdown     *)
(* ---------------------------------------------------------------- *)

\* id arguments of the constructor, as code points: none, "", "a", "é",
\* "a\x00", twelve and thirteen times "a", seven times "é"
IdArgs ==
    { None, <<>>, <<97>>, <<233>>, <<97, 0>>,
      [k \in 1..12 |-> 97], [k \in 1..13 |-> 97], [k \in 1..7 |-> 233] }

\* rate arguments of the constructor
Rates == {FREQ_DEF, 2}

\* HeartbeatClient(destination, id, rate) in a process of Pids, next to a
\* server that is bound at destination and stays so
ClientInit ==
    /\ Start({c \in Configs : c.bind /\ c.path = NoPath /\ c.fs = {}}, "log", {FALSE})
    /\ recording = FALSE
    /\ \E id \in IdArgs, rate \in Rates, pid \in Pids :
          LET c == HeartbeatClient(id, rate, pid) IN
          /\ client_args = [id |-> id, rate |-> rate]
          /\ client_exc = c.exc
          /\ client_pid = pid
          /\ client_id = IF c.exc = "none" THEN c.id ELSE None
          /\ client_rate = rate
          /\ client_open = (c.exc = "none")
          /\ pcR = IF c.exc = "none" THEN "idle" ELSE "none"
          /\ pcK = IF c.exc = "none" THEN "idle" ELSE "none"
    /\ client_shutdown = FALSE
    /\ client_lock = "free"
    /\ clock = 0
    /\ sleeps = 0
    /\ sent = <<>>

\* run(): self._connect(); if self.id: self.register()
RunRegister ==
    /\ pcR = "idle"
    /\ LET r == IF Truthy(client_id)
                THEN _send(2, clock, client_pid, client_id, client_open, sent)
                ELSE [exc |-> "none", sent |-> sent]
       IN  /\ sent' = r.sent
           /\ pcR' = IF r.exc = "none" THEN "while" ELSE "dead"
    /\ UNCHANGED << serverVars, client_args, client_exc, client_pid, client_id,
                    client_rate, client_shutdown, client_open, client_lock,
                    pcK, clock, sleeps >>

\* while not self._shutdown
RunWhile ==
    /\ pcR = "while"
    /\ pcR' = IF client_shutdown THEN "acquire" ELSE "send"
    /\ UNCHANGED << serverVars, client_args, client_exc, client_pid, client_id,
                    client_rate, client_shutdown, client_open, client_lock,
                    pcK, clock, sleeps, sent >>

\* self._send(packet_type=1)
RunHeartbeat ==
    /\ pcR = "send"
    /\ LET r == _send(1, clock, client_pid, client_id, client_open, sent)
       IN  /\ sent' = r.sent
           /\ pcR' = IF r.exc = "none" THEN "sleep" ELSE "dead"
    /\ UNCHANGED << serverVars, client_args, client_exc, client_pid, client_id,
                    client_rate, client_shutdown, client_open, client_lock,
                    pcK, clock, sleeps >>

\* time.sleep(FREQ_DEF)
RunSleep ==
    /\ pcR = "sleep"
    /\ sleeps < MaxSleeps
    /\ sleeps' = sleeps + 1
    /\ clock' = clock + FREQ_DEF
    /\ pcR' = "while"
    /\ UNCHANGED << serverVars, client_args, client_exc, client_pid, client_id,
                    client_rate, client_shutdown, client_open, client_lock,
                    pcK, sent >>

\* with self._condition:
RunAcquire ==
    /\ pcR = "acquire"
    /\ client_lock = "free"
    /\ client_lock' = "run"
    /\ pcR' = "notify"
    /\ UNCHANGED << serverVars, client_args, client_exc, client_pid, client_id,
                    client_rate, client_shutdown, client_open, pcK, clock,
                    sleeps, sent >>

\* self._condition.notify_all()
RunNotifyAll ==
    /\ pcR = "notify"
    /\ pcK' = IF pcK = "waiting" THEN "notified" ELSE pcK
    /\ pcR' = "release"
    /\ UNCHANGED << serverVars, client_args, client_exc, client_pid, client_id,
                    client_rate, client_shutdown, client_open, client_lock,
                    clock, sleeps, sent >>

\* the with block ends, run() returns
RunRelease ==
    /\ pcR = "release"
    /\ client_lock' = "free"
    /\ pcR' = "done"
    /\ UNCHANGED << serverVars, client_args, client_exc, client_pid, client_id,
                    client_rate, client_shutdown, client_open, pcK, clock,
                    sleeps, sent >>

\* shutdown() of the client is called from another thread:
\* with self._condition: self._shutdown = True
ClientShutdownCall ==
    /\ pcK = "idle"
    /\ client_lock = "free"
    /\ client_lock' = "ctl"
    /\ client_shutdown' = TRUE
    /\ pcK' = "flagged"
    /\ UNCHANGED << serverVars, client_args, client_exc, client_pid, client_id,
                    client_rate, client_open, pcR, clock, sleeps, sent >>

\* a wait() that returns without having been notified
ClientWait_unnotified ==
    /\ pcK = "flagged"
    /\ client_lock' = "free"
    /\ pcK' = "notified"
    /\ UNCHANGED << serverVars, client_args, client_exc, client_pid, client_id,
                    client_rate, client_shutdown, client_open, pcR, clock,
                    sleeps, sent >>

\* self._condition.wait(): releases the lock and blocks until notified
ClientWait ==
    /\ pcK = "flagged"
    /\ client_lock' = "free"
    /\ pcK' = "waiting"
    /\ UNCHANGED << serverVars, client_args, client_exc, client_pid, client_id,
                    client_rate, client_shutdown, client_open, pcR, clock,
                    sleeps, sent >>

\* wait() returns once notified and the lock is taken again
ClientWake ==
    /\ pcK = "notified"
    /\ client_lock = "free"
    /\ client_lock' = "ctl"
    /\ pcK' = "exit"
    /\ UNCHANGED << serverVars, client_args, client_exc, client_pid, client_id,
                    client_rate, client_shutdown, client_open, pcR, clock,
                    sleeps, sent >>

\* self._safe_exit(), then the with block ends and shutdown() returns, or
\* the exception of _safe_exit leaves shutdown()
ClientSafeExit ==
    /\ pcK = "exit"
    /\ LET r == client_safe_exit(clock, client_pid, client_id, client_open, sent)
       IN  /\ client_open' = r.open
           /\ sent' = r.sent
           /\ pcK' = IF r.exc = "none" THEN "returned" ELSE "raised"
    /\ client_lock' = "free"
    /\ UNCHANGED << serverVars, client_args, client_exc, client_pid, client_id,
                    client_rate, client_shutdown, pcR, clock, sleeps >>

RunStep ==
    \/ RunRegister
    \/ RunWhile
    \/ RunHeartbeat
    \/ RunSleep
    \/ RunAcquire
    \/ RunNotifyAll
    \/ RunRelease

ClientShutdownStep ==
    \/ ClientShutdownCall
    \/ ClientWait
    \/ ClientWake
    \/ ClientSafeExit

ClientNext ==
    \/ RunStep
    \/ ClientShutdownStep

\* a client, its run() in one thread and its shutdown() called from another
ClientSpec == ClientInit /\ [][ClientNext]_vars

(* ---------------------------------------------------------------- *)
(* Properties                                                       *)
(* ---------------------------------------------------------------- *)

\* handle_request has run on request in the current iteration of the loop
Handled == events /\ pcS \in {"hook", "dead"}

\* the packets of a client with pid p stamped t
Heartbeat(t, p) == _sign_packet(1, t, p, None)

Register(t, p, id) == _sign_packet(2, t, p, id)

Deregister(t, p) == _sign_packet(3, t, p, None)

\* C1: once a shutdown() call has returned, serve() has returned (its loop
\* handles no packet and runs no hook any more), the socket's descriptor
\* is closed and the path of the socket does not exist.
ShutdownReturnsAfterTeardown ==
    nreturned > 0 => (pcS = "done" /\ ~open /\ path \notin fs)

\* a shutdown() has returned on a bound server that had handled packets
ShutdownReturnedWitness ==
    pcC = "returned" /\ bound /\ path # NoPath /\ DOMAIN clients # {}

\* C2: a first shutdown() called on a bound server while serve() runs its
\* loop, or before serve() is started, goes on to return: as long as it has
\* not returned, the controller or the serving thread can take a step, so
\* that scheduling both threads brings the call to its return.
ShutdownNeverStuck ==
    (calls = 1 /\ calledLive /\ bound
        /\ pcC \in {"flagged", "waiting", "notified", "exit"})
        => ENABLED (ShutdownStep \/ ServeStep)

\* C3: a second shutdown() made after the first one returned ends
\* normally: it does not raise, and while it has not returned one of the
\* two threads can still take a step (it is not blocked for good).
DoubleShutdownTerminates ==
    (calls = 2 /\ nreturned = 1) =>
        (pcC # "raised" /\ ENABLED (ShutdownStep \/ ServeStep))

\* a buffer whose length is not 14 or 26 or whose kind is not 1, 2 or 3
IsMalformed(data) == Len(data) \notin {14, 26} \/ data[2] \notin {1, 2, 3}

\* C4: handle_request drops a malformed buffer: it returns (the loop goes
\* on to the hook) and the table is as it was.
MalformedPacketDropped ==
    (Handled /\ IsMalformed(request)) => (pcS = "hook" /\ clients = before)

\* C5: a Deregister removes exactly the entry of its pid when there is one
\* and leaves the table as it was when there is none; handle_request
\* returns in both cases.
DeregisterRemovesOrIgnores ==
    \A t \in Stamps, p \in Pids :
        (Handled /\ request = Deregister(t, p)) =>
            /\ pcS = "hook"
            /\ clients = [q \in DOMAIN before \ {p} |-> before[q]]

\* a Deregister was handled for a pid that a non-empty table did not hold
DeregisterAbsentWitness ==
    \E t \in Stamps, p \in Pids :
        /\ Handled /\ request = Deregister(t, p)
        /\ p \notin DOMAIN before /\ DOMAIN before # {}

\* C6: a Register sets the entry of its pid to the packet's identifier and
\* timestamp, whatever was stored, and leaves the other entries alone.
RegisterOverwrites ==
    \A t \in Stamps, p \in Pids, id \in Idents :
        (Handled /\ request = Register(t, p, id)) =>
            /\ pcS = "hook"
            /\ clients = [q \in DOMAIN before \cup {p} |->
                            IF q = p
                            THEN [process_name |-> id, last_heartbeat |-> t]
                            ELSE before[q]]

\* a Register was handled whose timestamp is older than the stored one and
\* whose identifier differs from the stored one
RegisterOlderWitness ==
    \E t \in Stamps, p \in Pids, id \in Idents :
        /\ Handled /\ request = Register(t, p, id)
        /\ p \in DOMAIN before
        /\ before[p].last_heartbeat > t
        /\ before[p].process_name \notin {id, None}

\* C7: a Heartbeat for a pid the table does not hold creates an entry
\* with the packet's timestamp and no identifier (None).
HeartbeatCreatesEntry ==
    \A t \in Stamps, p \in Pids :
        (Handled /\ request = Heartbeat(t, p) /\ p \notin DOMAIN before) =>
            /\ pcS = "hook"
            /\ p \in DOMAIN clients
            /\ clients[p] = [process_name |-> None, last_heartbeat |-> t]

\* a Heartbeat was handled for a pid the table did not hold
HeartbeatUnseenWitness ==
    \E t \in Stamps, p \in Pids :
        /\ Handled /\ request = Heartbeat(t, p)
        /\ p \notin DOMAIN before /\ pcS = "hook"

\* C8: a Heartbeat for a pid the table holds sets that entry's last_seen
\* to the packet's timestamp and changes nothing else: not that entry's
\* identifier, not another pid's entry, not the set of pids.
HeartbeatUpdatesInPlace ==
    \A t \in Stamps, p \in Pids :
        (Handled /\ request = Heartbeat(t, p) /\ p \in DOMAIN before) =>
            /\ pcS = "hook"
            /\ clients = [q \in DOMAIN before |->
                            IF q = p
                            THEN [process_name |-> before[p].process_name,
                                  last_heartbeat |-> t]
                            ELSE before[q]]

\* a Heartbeat older than the stored timestamp was handled for a
\* registered pid while another pid was in the table
HeartbeatOlderWitness ==
    \E t \in Stamps, p \in Pids :
        /\ Handled /\ request = Heartbeat(t, p)
        /\ p \in DOMAIN before
        /\ before[p].last_heartbeat > t
        /\ before[p].process_name # None
        /\ DOMAIN before # {p}
        /\ pcS = "hook"

\* C9: with the default window of 10, a scan at time currtime calls
\* notify(pid) once for each entry whose last_seen is below currtime - 10
\* and not at all for any other pid; so once for last_seen = currtime - 11
\* and not for last_seen = currtime - 9.
ScanNotifiesExactlyStale ==
    (scanned /\ timeout = 10) =>
        /\ BagToSet(notified) \subseteq DOMAIN clients
        /\ \A p \in DOMAIN clients :
              /\ CopiesIn(p, notified) =
                    IF clients[p].last_heartbeat < currtime - 10 THEN 1 ELSE 0
              /\ clients[p].last_heartbeat = currtime - 11
                    => CopiesIn(p, notified) = 1
              /\ clients[p].last_heartbeat = currtime - 9
                    => CopiesIn(p, notified) = 0

\* a scan of a collector with the default window met an entry 11 seconds
\* old and an entry 9 seconds old
ScanWitness ==
    /\ scanned /\ timeout = 10
    /\ \E p, q \in DOMAIN clients :
          /\ clients[p].last_heartbeat = currtime - 11
          /\ clients[q].last_heartbeat = currtime - 9
          /\ CopiesIn(p, notified) = 1

\* C10: a collector constructed with a window (timeout) other than 10
\* alerts an entry exactly when its last_seen is below currtime - window.
ScanUsesConfiguredWindow ==
    (scanned /\ timeout # 10) =>
        \A p \in DOMAIN clients :
            BagIn(p, notified) <=> clients[p].last_heartbeat < currtime - timeout

\* C11: an exception of notify during a scan does not end the loop: after
\* request_hook was called in an iteration, serve() is still running.
NotifyFailureContained ==
    (iteration # <<>> /\ iteration[Len(iteration)] = "request_hook")
        => pcS # "dead"

\* the calls of an iteration that ran to its end: the wait, then the hook,
\* with one get_request and one handle_request between them when a packet
\* was ready
FullIterations ==
    { <<"select", "request_hook">>,
      <<"select", "get_request", "handle_request", "request_hook">> }

\* the loop has left the iteration: it is about to test the flag again, or
\* an exception has ended serve()
IterationOver == pcS \in {"while", "dead"} /\ iteration # <<>>

\* C12: an iteration in which the flag is not observed after the wait reads
\* at most one packet, passes it to handle_request, and calls request_hook
\* exactly once, after handle_request.
OneHookPerIteration == IterationOver => iteration \in FullIterations

\* serve() has observed the flag and left the loop
Exiting == {"acquire", "notify", "release", "done"}

\* C13: when the wait has returned and the flag is set, the loop's next
\* step leaves the loop; the iteration in which the loop is left has called
\* none of get_request, handle_request and request_hook, and the table does
\* not change once the loop is left.
FlagObservedExits ==
    [][ /\ (pcS = "selected" /\ _shutdown) => pcS' \in Exiting \cup {"selected"}
        /\ pcS' \in Exiting => iteration' \in {<<>>, <<"select">>}
        /\ pcS \in Exiting => clients' = clients ]_vars

\* the loop was left after a wait that reported a packet, with entries in
\* the table
FlagObservedWitness ==
    pcS = "acquire" /\ events /\ iteration = <<"select">> /\ DOMAIN clients # {}

\* C20: a server constructed with bind=True is bound to self.path, which
\* is the path argument when one was given and else a path in /tmp/unx_ss
\* whose name starts with "server."; this also when the path existed
\* before (it was unlinked).  A server constructed with bind=False is not
\* bound and self.path is the path argument.
BindFollowsArguments ==
    /\ args.bind =>
          /\ bound /\ addr = path
          /\ args.path # NoPath => path = args.path
          /\ args.path = NoPath => path = "/tmp/unx_ss/server." \o Token
          /\ (pcS = "idle" /\ calls = 0) => path \in fs
    /\ ~args.bind => (~bound /\ addr = NoPath /\ path = args.path)

\* a server was bound to an explicit path at which a file existed
BindOverStaleWitness ==
    /\ args.bind /\ args.path \in args.fs
    /\ bound /\ addr = args.path /\ pcS = "idle" /\ calls = 0

\* the types of the packets the client has sent, in order
SentTypes == [i \in 1..Len(sent) |-> sent[i].type]

\* C14: the first packet a client sends is a Register and no other packet
\* is one; a Deregister is followed by no packet; the socket is closed only
\* after a Deregister was sent; when shutdown() has returned, the last
\* packet is the one Deregister and the packets between the Register and
\* it are Heartbeats.
RegisterHeartbeatsDeregister ==
    LET n == Len(sent) IN
    /\ n > 0 => SentTypes[1] = 2
    /\ \A i \in 2..n : SentTypes[i] \in {1, 3}
    /\ \A i \in 1..n - 1 : SentTypes[i] # 3
    /\ (client_exc = "none" /\ ~client_open) => (n > 0 /\ SentTypes[n] = 3)
    /\ pcK = "returned" =>
          /\ n >= 2 /\ SentTypes[n] = 3
          /\ \A i \in 2..n - 1 : SentTypes[i] = 1

\* shutdown() has returned after a run that sent several Heartbeats
RunEndedByShutdownWitness ==
    pcK = "returned" /\ Len(sent) >= 4 /\ ~client_open

\* C15: when the client's shutdown() has returned, run() has seen the flag
\* and left its loop, the Deregister has been sent and the socket is closed.
ClientShutdownReturnsAfterExit ==
    pcK = "returned" =>
        /\ pcR \in {"acquire", "notify", "release", "done"}
        /\ \E i \in 1..Len(sent) : sent[i].type = 3
        /\ ~client_open

\* shutdown() has returned; it was called while run() was between two
\* Heartbeats
ClientShutdownReturnedWitness ==
    pcK = "returned" /\ sleeps >= 1 /\ pcR = "done"

\* C16: two consecutive Heartbeats of a client constructed with rate = R
\* are sent R seconds apart.
HeartbeatsRateApart ==
    \A i \in 1..Len(sent) - 1 :
        (sent[i].type = 1 /\ sent[i + 1].type = 1) =>
            sent[i + 1].time - sent[i].time = client_rate

\* C17: _unpack of a packet built by _sign_packet returns the packet's
\* type, the pid, the timestamp and, for a Register whose identifier has 1
\* to 12 bytes, the identifier, else None; the packet has 26 bytes for a
\* Register and 14 bytes otherwise.
CodecRoundTrip ==
    \A i \in 1..Len(sent) :
        LET type_ == sent[i].type IN
        (type_ = 2 => Len(Utf8Encode(client_id)) \in 1..12) =>
            /\ _unpack(sent[i].packet) =
                    Return(<< type_, client_pid, sent[i].time,
                              IF type_ = 2 THEN client_id ELSE None >>)
            /\ Len(sent[i].packet) = IF type_ = 2 THEN 26 ELSE 14

\* C18: the constructor accepts an identifier of 1 to 12 characters, fails
\* with ValueError for one of 0 or of more than 12 characters, and takes
\* str(pid) as the identifier when none is given.
ConstructorValidatesIdentifier ==
    LET id == client_args.id IN
    pcK # "none" \/ client_exc # "none" =>
        /\ id = None => (client_exc = "none" /\ client_id = PyStr(client_pid))
        /\ (id # None /\ Len(id) \in 1..12) =>
              (client_exc = "none" /\ client_id = id)
        /\ (id # None /\ (Len(id) = 0 \/ Len(id) > 12)) =>
              client_exc = "ValueError"

\* C19: a client whose identifier has more than 12 bytes in UTF-8 sends no
\* Register packet: building it fails instead of cutting the identifier.
EncoderNeverTruncates ==
    (client_exc = "none" /\ pcR # "none" /\ Len(Utf8Encode(client_id)) > 12) =>
        \A i \in 1..Len(sent) : sent[i].type # 2

\* C21: the completion signal is not lost: from the moment shutdown() has
\* set the flag until its wait() starts, the caller holds the condition's
\* lock and serve() is not inside its with block, so that notify_all is
\* never called in between.
NoLostWakeup ==
    pcC = "flagged" => (lock = "ctl" /\ pcS \notin {"notify", "release"})

\* serve() has observed the flag and reached its with block while the
\* caller, holding the lock, has not started to wait
ServeBlockedOnLockWitness ==
    pcS = "acquire" /\ pcC = "flagged" /\ lock = "ctl" /\ calledLive

\* C22: when an exception of handle_request or request_hook has ended
\* serve(), notify_all was not called (no shutdown() has been woken or has
\* returned), the socket is still open and the bound path still exists,
\* and a shutdown() called before or after stays in its wait.
UncaughtExceptionSkipsSignal ==
    pcS = "dead" =>
        /\ nreturned = 0
        /\ pcC \in {"idle", "flagged", "waiting"}
        /\ open
        /\ bound => path \in fs

\* an exception raised in request_hook has ended serve(), and a shutdown()
\* called after that is waiting
ShutdownAfterCrashWitness ==
    /\ pcS = "dead" /\ iteration # <<>>
    /\ iteration[Len(iteration)] = "request_hook"
    /\ pcC = "waiting" /\ ~calledLive /\ bound

\* C23: the keys of the table are the pids whose latest dispatched packet
\* is a Heartbeat or a Register (pids with no packet yet, or with a
\* Deregister as the latest, are not keys); a Heartbeat handled for a pid
\* whose latest packet was a Deregister creates the entry again, with the
\* Heartbeat's timestamp and no identifier.
TableTracksLifecycle ==
    /\ DOMAIN clients = {p \in Pids : processed[p] \in {"Heartbeat", "Register"}}
    /\ \A t \in Stamps, p \in Pids :
          (Handled /\ request = Heartbeat(t, p)
                   /\ processedBefore[p] = "Deregister") =>
              /\ pcS = "hook"
              /\ p \in DOMAIN clients
              /\ clients[p] = [process_name |-> None, last_heartbeat |-> t]

\* a Heartbeat was handled for a pid whose latest packet had been a
\* Deregister, while another pid was registered
HeartbeatAfterDeregisterWitness ==
    \E t \in Stamps, p \in Pids :
        /\ Handled /\ request = Heartbeat(t, p)
        /\ processedBefore[p] = "Deregister"
        /\ \E q \in Pids \ {p} : processed[q] = "Register"

\* C24: a scan leaves the table as it is, and a pid the previous scan
\* called notify for, with no packet for it handled since, is still a key
\* and gets a notify call from this scan too.
ScanLeavesTable ==
    [][ (pcS = "hook" /\ pcS' # "hook") =>
            /\ clients' = clients
            /\ \A p \in Pids :
                  alerts[p] > 0 => (p \in DOMAIN clients' /\ BagIn(p, notified')) ]_vars

\* two scans in a row have called notify for the same untouched entry
NotifiedAgainWitness ==
    /\ scanned
    /\ \E p \in DOMAIN clients : alerts[p] = 2 /\ BagIn(p, notified)

\* C25: the table changes only in handle_request's step of the loop
\* thread, and a scan returns having called notify only for keys of the
\* table: under HeartbeatServer's own notify no lookup of clients[pid]
\* fails and serve() goes on to its next iteration.
NotifyOnlyForKeys ==
    [][ /\ clients' # clients => (pcS = "handle" /\ pcS' \in {"hook", "dead"})
        /\ (pcS = "hook" /\ pcS' # "hook") =>
              /\ pcS' = "while"
              /\ BagToSet(notified') \subseteq DOMAIN clients' ]_vars

\* a scan that followed a handled packet has called notify, with the
\* controller in shutdown() at the same time
NotifyDuringShutdownWitness ==
    /\ scanned /\ Len(iteration) = 4 /\ notified # EmptyBag
    /\ pcC \in {"flagged", "waiting"}

====
